---- MODULE Spec2Model ----
(***************************************************************************)
(* Magnet RSS Worker (src/src/index.js, version 2.1.0).                    *)
(*                                                                         *)
(* A JavaScript string is a sequence of UTF-16 code units (integers).      *)
(* The worker keeps no state of its own: the state is the KV namespace     *)
(* MAGNET_KV, the secret MAGNET_RSS_KEY, the clock, and the requests that  *)
(* are in flight, each stopped at one of its awaits.                       *)
(***************************************************************************)
EXTENDS Integers, Sequences, FiniteSets, TLC

\* ------------------------------------------------------------------------
\* Strings
\* ------------------------------------------------------------------------

\* The printable ASCII characters, in code order from U+0020 to U+007E
\* (the grave accent, which no literal of the program uses, by its name).
Ascii ==
  <<" ","!","\"","#","$","%","&","'","(",")","*","+",",","-",".","/",
    "0","1","2","3","4","5","6","7","8","9",":",";","<","=",">","?",
    "@","A","B","C","D","E","F","G","H","I","J","K","L","M","N","O",
    "P","Q","R","S","T","U","V","W","X","Y","Z","[","\\","]","^","_",
    "U+0060","a","b","c","d","e","f","g","h","i","j","k","l","m","n","o",
    "p","q","r","s","t","u","v","w","x","y","z","{","|","}","~">>

\* The code unit of a printable ASCII character.
Code(c) == 31 + (CHOOSE i \in 1..Len(Ascii) : Ascii[i] = c)

\* A string literal, written character by character, as its code units.
S(t) == [i \in 1..Len(t) |-> Code(t[i])]

\* null / undefined: a value that no string equals (no code unit is negative).
Null == << -1 >>

\* The failure of an operation that throws (URIError, an invalid Date).
Thrown == << -2 >>

\* JavaScript truthiness of a value that is a string, null or undefined.
Truthy(v) == v # Null /\ v # <<>>

\* The characters and the string literals of the program.
ChLt == Code("<")
ChGt == Code(">")
ChAmp == Code("&")
ChApos == Code("'")
ChQuot == Code("\"")
ChUnderscore == Code("_")
ChDot == Code(".")
ChHyphen == Code("-")
ChBang == Code("!")
ChQuestion == Code("?")
ChLParen == Code("(")
ChRParen == Code(")")
ChLBracket == Code("[")
ChRBracket == Code("]")
ChLBrace == Code("{")
ChRBrace == Code("}")
ChAt == Code("@")
ChPercent == Code("%")
ChUpperZ == Code("Z")
ChLowerA == Code("a")
StrLt == S(<<"&","l","t",";">>)
StrGt == S(<<"&","g","t",";">>)
StrAmp == S(<<"&","a","m","p",";">>)
StrApos == S(<<"&","a","p","o","s",";">>)
StrQuot == S(<<"&","q","u","o","t",";">>)
StrDnParam == S(<<"&","d","n","=">>)
StrMagnetPrefix == S(<<"m","a","g","n","e","t",":","?","x","t","=","u","r","n",":","b","t","i","h",":">>)
StrUnnamedTorrent == S(<<"U","n","n","a","m","e","d"," ","T","o","r","r","e","n","t">>)
StrDot == S(<<".">>)
StrZ == S(<<"Z">>)
StrInvalidDate == S(<<"I","n","v","a","l","i","d"," ","D","a","t","e">>)
StrUtcPrefix == S(<<"T","h","u",","," ","0","1"," ","J","a","n"," ","1","9","7","0"," ","0","0",":","0","0",":">>)
StrGmt == S(<<" ","G","M","T">>)
StrCDataOpen == S(<<"<","!","[","C","D","A","T","A","[">>)
StrCDataClose == S(<<"]","]",">">>)
StrRssPath == S(<<"/","r","s","s">>)
StrLatestMagnetLink == S(<<"L","a","t","e","s","t"," ","m","a","g","n","e","t"," ","l","i","n","k",":"," ">>)
StrBearer == S(<<"B","e","a","r","e","r"," ">>)
StrUrnBtih == S(<<"u","r","n",":","b","t","i","h",":">>)
StrUpdatePath == S(<<"/","u","p","d","a","t","e">>)
StrHealthPath == S(<<"/","h","e","a","l","t","h">>)
StrUnknownPath == S(<<"/","u","n","k","n","o","w","n">>)
StrInvalidUrl == S(<<"I","n","v","a","l","i","d"," ","U","R","L",":"," ">>)
StrInvalidUrlString == S(<<"I","n","v","a","l","i","d"," ","U","R","L"," ","s","t","r","i","n","g",".">>)
StrTypeError == S(<<"T","y","p","e","E","r","r","o","r",":"," ">>)
StrAtFetch == S(<<" ","a","t"," ","f","e","t","c","h"," ","(","i","n","d","e","x",".","j","s",":","8",")">>)
StrLatestTorrent == S(<<"L","a","t","e","s","t"," ","T","o","r","r","e","n","t">>)

\* The substring s[from..to] (1-based, inclusive; empty when from > to).
Slice(s, from, to) == [i \in 1..(to - from + 1) |-> s[from + i - 1]]

\* Whether p occurs in s at position k.
MatchesAt(s, k, p) ==
  /\ k >= 1
  /\ k + Len(p) - 1 <= Len(s)
  /\ \A i \in 1..Len(p) : s[k + i - 1] = p[i]

\* String.prototype.startsWith.
StartsWith(s, p) == MatchesAt(s, 1, p)

IsDigit(c) == c \in 48..57
IsUpper(c) == c \in 65..90
IsLower(c) == c \in 97..122
\* [a-zA-Z0-9]
IsAlnum(c) == IsDigit(c) \/ IsUpper(c) \/ IsLower(c)

\* The canonical form a regular expression with the i flag compares by
\* (without the u flag, only ASCII letters fold onto ASCII letters).
Canonicalize(c) == IF IsLower(c) THEN c - 32 ELSE c

\* Whether p occurs in s at position k, compared as under the i flag.
MatchesAtI(s, k, p) ==
  /\ k >= 1
  /\ k + Len(p) - 1 <= Len(s)
  /\ \A i \in 1..Len(p) : Canonicalize(s[k + i - 1]) = Canonicalize(p[i])

\* ------------------------------------------------------------------------
\* timingSafeEqual
\* ------------------------------------------------------------------------

IsHighSurrogate(c) == c \in 55296..56319
IsLowSurrogate(c)  == c \in 56320..57343

\* The UTF-8 bytes of a code point.
Utf8OfCodePoint(cp) ==
  IF cp < 128 THEN << cp >>
  ELSE IF cp < 2048 THEN << 192 + (cp \div 64), 128 + (cp % 64) >>
  ELSE IF cp < 65536
    THEN << 224 + (cp \div 4096), 128 + ((cp \div 64) % 64), 128 + (cp % 64) >>
  ELSE << 240 + (cp \div 262144), 128 + ((cp \div 4096) % 64),
          128 + ((cp \div 64) % 64), 128 + (cp % 64) >>

\* new TextEncoder().encode(s): a surrogate pair is one code point, an
\* unpaired surrogate is encoded as U+FFFD.
RECURSIVE TextEncode(_)
TextEncode(s) ==
  IF s = <<>> THEN <<>>
  ELSE IF IsHighSurrogate(s[1]) /\ Len(s) >= 2 /\ IsLowSurrogate(s[2])
    THEN Utf8OfCodePoint(65536 + (s[1] - 55296) * 1024 + (s[2] - 56320))
         \o TextEncode(Tail(Tail(s)))
  ELSE IF IsHighSurrogate(s[1]) \/ IsLowSurrogate(s[1])
    THEN Utf8OfCodePoint(65533) \o TextEncode(Tail(s))
  ELSE Utf8OfCodePoint(s[1]) \o TextEncode(Tail(s))

\* x ^ y on bytes, bit by bit.
RECURSIVE BitXor(_, _)
BitXor(x, y) ==
  IF x = 0 /\ y = 0 THEN 0
  ELSE (IF x % 2 = y % 2 THEN 0 ELSE 1) + 2 * BitXor(x \div 2, y \div 2)

\* x | y on bytes, bit by bit.
RECURSIVE BitOr(_, _)
BitOr(x, y) ==
  IF x = 0 /\ y = 0 THEN 0
  ELSE (IF x % 2 = 1 \/ y % 2 = 1 THEN 1 ELSE 0) + 2 * BitOr(x \div 2, y \div 2)

\* The loop of timingSafeEqual: result |= aBuf[i] ^ bBuf[i], from index i on.
RECURSIVE XorFold(_, _, _, _)
XorFold(aBuf, bBuf, i, result) ==
  IF i > Len(aBuf) THEN result
  ELSE XorFold(aBuf, bBuf, i + 1, BitOr(result, BitXor(aBuf[i], bBuf[i])))

\* timingSafeEqual with the loop left out: only the lengths are compared.
timingSafeEqualLengthOnly(a, b) == Len(TextEncode(a)) = Len(TextEncode(b))

timingSafeEqual(a, b) ==
  LET aBuf == TextEncode(a)
      bBuf == TextEncode(b)
  IN  IF Len(aBuf) # Len(bBuf) THEN FALSE
      ELSE XorFold(aBuf, bBuf, 1, 0) = 0

\* ------------------------------------------------------------------------
\* escapeXml, sanitizeDisplayName
\* ------------------------------------------------------------------------

\* XmlEntity with the apostrophe left out of the table.
XmlEntityWithoutApos(c) ==
  IF c = ChLt THEN StrLt
  ELSE IF c = ChGt THEN StrGt
  ELSE IF c = ChAmp THEN StrAmp
  ELSE IF c = ChQuot THEN StrQuot
  ELSE << c >>

\* The replacement escapeXml's callback gives for one character.
XmlEntity(c) ==
  IF c = ChLt THEN StrLt
  ELSE IF c = ChGt THEN StrGt
  ELSE IF c = ChAmp THEN StrAmp
  ELSE IF c = ChApos THEN StrApos
  ELSE IF c = ChQuot THEN StrQuot
  ELSE << c >>

RECURSIVE escapeXml(_)
escapeXml(unsafe) ==
  IF unsafe = <<>> THEN <<>>
  ELSE XmlEntity(unsafe[1]) \o escapeXml(Tail(unsafe))

\* \s of a regular expression.
IsRegexSpace(c) ==
  \/ c \in 9..13
  \/ c \in {32, 160, 5760, 8232, 8233, 8239, 8287, 12288, 65279}
  \/ c \in 8192..8202

\* The class [\w\s.\-!?()\[\]{}@] of sanitizeDisplayName.
IsSafeNameChar(c) ==
  \/ IsAlnum(c)
  \/ c = ChUnderscore
  \/ IsRegexSpace(c)
  \/ c \in { ChDot, ChHyphen, ChBang, ChQuestion, ChLParen, ChRParen,
             ChLBracket, ChRBracket, ChLBrace, ChRBrace, ChAt }

sanitizeDisplayName(name) == SelectSeq(name, IsSafeNameChar)

\* ------------------------------------------------------------------------
\* decodeURIComponent, parseDisplayName, validateMagnetLink
\* ------------------------------------------------------------------------

\* The value of a hexadecimal digit, -1 for any other character.
HexVal(c) ==
  IF IsDigit(c) THEN c - 48
  ELSE IF c \in 65..70 THEN c - 55
  ELSE IF c \in 97..102 THEN c - 87
  ELSE -1

\* The byte an escape "%XX" at position k of s denotes, -1 when there is none.
PctByte(s, k) ==
  IF /\ k + 2 <= Len(s)
     /\ s[k] = ChPercent
     /\ HexVal(s[k + 1]) >= 0
     /\ HexVal(s[k + 2]) >= 0
  THEN 16 * HexVal(s[k + 1]) + HexVal(s[k + 2])
  ELSE -1

\* The length of the UTF-8 sequence a lead byte announces, 0 when the byte
\* cannot start one.
Utf8Len(b) ==
  IF b \in 0..127 THEN 1
  ELSE IF b \in 192..223 THEN 2
  ELSE IF b \in 224..239 THEN 3
  ELSE IF b \in 240..247 THEN 4
  ELSE 0

\* The code point of n escapes starting at position k, -1 when they are not
\* the UTF-8 encoding of a code point.
PctCodePoint(s, k, n) ==
  LET b(j) == PctByte(s, k + 3 * j)
      cont == \A j \in 1..(n - 1) : b(j) \in 128..191
      v == IF n = 2 THEN (b(0) - 192) * 64 + (b(1) - 128)
           ELSE IF n = 3
             THEN (b(0) - 224) * 4096 + (b(1) - 128) * 64 + (b(2) - 128)
           ELSE (b(0) - 240) * 262144 + (b(1) - 128) * 4096
                + (b(2) - 128) * 64 + (b(3) - 128)
      ok == IF n = 2 THEN v >= 128
            ELSE IF n = 3 THEN v >= 2048 /\ v \notin 55296..57343
            ELSE v \in 65536..1114111
  IN  IF cont /\ ok THEN v ELSE -1

\* The code units of a code point.
Utf16OfCodePoint(v) ==
  IF v < 65536 THEN << v >>
  ELSE << 55296 + ((v - 65536) \div 1024), 56320 + ((v - 65536) % 1024) >>

\* head followed by rest, unless rest has thrown.
Then(head, rest) == IF rest = Thrown THEN Thrown ELSE head \o rest

\* decodeURIComponent from position k on: Thrown for a URIError.
RECURSIVE DecodeFrom(_, _)
DecodeFrom(s, k) ==
  IF k > Len(s) THEN <<>>
  ELSE IF s[k] # ChPercent THEN Then(<< s[k] >>, DecodeFrom(s, k + 1))
  ELSE LET b == PctByte(s, k)
           n == IF b < 0 THEN 0 ELSE Utf8Len(b)
       IN  IF n = 0 THEN Thrown
           ELSE IF n = 1 THEN Then(<< b >>, DecodeFrom(s, k + 3))
           ELSE IF PctCodePoint(s, k, n) < 0 THEN Thrown
           ELSE Then(Utf16OfCodePoint(PctCodePoint(s, k, n)),
                     DecodeFrom(s, k + 3 * n))

decodeURIComponent(s) == DecodeFrom(s, 1)

\* The positions where /&dn=([^&]+)/i matches.
DnMatches(magnet) ==
  { k \in 1..Len(magnet) :
      /\ MatchesAtI(magnet, k, StrDnParam)
      /\ k + 4 <= Len(magnet)
      /\ magnet[k + 4] # ChAmp }

\* The last position of the run of characters other than & that starts at k.
RunEnd(s, k) ==
  CHOOSE e \in k..Len(s) :
    /\ \A i \in k..e : s[i] # ChAmp
    /\ (e = Len(s) \/ s[e + 1] = ChAmp)

\* parseDisplayName returning the value as it stands in the identifier.
parseDisplayNameUndecoded(magnet) ==
  IF DnMatches(magnet) = {} THEN Null
  ELSE LET k == CHOOSE i \in DnMatches(magnet) :
                  \A j \in DnMatches(magnet) : i <= j
       IN  Slice(magnet, k + 4, RunEnd(magnet, k + 4))

parseDisplayName(magnet) ==
  IF DnMatches(magnet) = {} THEN Null
  ELSE LET k == CHOOSE i \in DnMatches(magnet) :
                  \A j \in DnMatches(magnet) : i <= j
           dnMatch1 == Slice(magnet, k + 4, RunEnd(magnet, k + 4))
       IN  IF decodeURIComponent(dnMatch1) = Thrown THEN dnMatch1
           ELSE decodeURIComponent(dnMatch1)

\* /^magnet:\?xt=urn:btih:([a-zA-Z0-9]{32,40})/i : the prefix, then a run of
\* 32 to 40 alphanumeric characters; nothing anchors what follows the run.
magnetPattern(magnet) ==
  LET prefix == StrMagnetPrefix
  IN  /\ MatchesAtI(magnet, 1, prefix)
      /\ \E n \in 32..40 :
           /\ Len(prefix) + n <= Len(magnet)
           /\ \A i \in 1..n : IsAlnum(magnet[Len(prefix) + i])

\* validateMagnetLink accepting every string.
validateMagnetLinkAcceptingAll(magnet) ==
  [valid |-> TRUE, message |-> "", displayName |-> StrUnnamedTorrent]

validateMagnetLink(magnet) ==
  IF Len(magnet) < 40
    THEN [valid |-> FALSE, message |-> "Invalid magnet format",
          displayName |-> Null]
  ELSE IF ~magnetPattern(magnet)
    THEN [valid |-> FALSE,
          message |-> "Invalid magnet link. Must start with \"magnet:?xt=urn:btih:\"",
          displayName |-> Null]
  ELSE [valid |-> TRUE, message |-> "",
        displayName |->
          IF Truthy(parseDisplayName(magnet)) THEN parseDisplayName(magnet)
          ELSE StrUnnamedTorrent]

\* ------------------------------------------------------------------------
\* Dates. A Date is its time value in milliseconds since the epoch (NaN is
\* NaN below); the formats are those of the first minute after the epoch, which
\* the clock of the model never leaves.
\* ------------------------------------------------------------------------

NaN == 0 - 1

TwoDigits(n) == << 48 + (n \div 10), 48 + (n % 10) >>
ThreeDigits(n) == << 48 + (n \div 100), 48 + ((n \div 10) % 10), 48 + (n % 10) >>

IsoPrefix == S(<<"1","9","7","0","-","0","1","-","0","1","T","0","0",":","0","0",":">>)

\* Date.prototype.toISOString: milliseconds are kept.
toISOString(t) ==
  IsoPrefix \o TwoDigits((t \div 1000) % 60) \o StrDot
            \o ThreeDigits(t % 1000) \o StrZ

\* new Date(string): the time value of an ISO string, NaN for any other.
DateParse(str) ==
  IF /\ Len(str) = Len(IsoPrefix) + 7
     /\ StartsWith(str, IsoPrefix)
     /\ \A i \in {1, 2, 4, 5, 6} : IsDigit(str[Len(IsoPrefix) + i])
     /\ str[Len(IsoPrefix) + 3] = ChDot
     /\ str[Len(IsoPrefix) + 7] = ChUpperZ
  THEN LET d(i) == str[Len(IsoPrefix) + i] - 48
       IN  (10 * d(1) + d(2)) * 1000 + 100 * d(4) + 10 * d(5) + d(6)
  ELSE NaN

\* Date.prototype.toUTCString: whole seconds, the milliseconds are dropped.
toUTCString(t) ==
  IF t = NaN THEN StrInvalidDate
  ELSE StrUtcPrefix
       \o TwoDigits((t \div 1000) % 60) \o StrGmt

\* ------------------------------------------------------------------------
\* Responses
\* ------------------------------------------------------------------------

\* No response (the null verifyAuth returns; a request still in flight).
NoResponse == [status |-> 0, contentType |-> "", body |-> <<>>]

jsonResponse(status, data) ==
  [status |-> status, contentType |-> "application/json", body |-> data]

\* new Response(text, { status }).
textResponse(status, text) ==
  [status |-> status, contentType |-> "text/plain;charset=UTF-8", body |-> text]

\* <![CDATA[ text ]]>
CData(text) ==
  StrCDataOpen \o text \o StrCDataClose

\* generateRssFeed escaping the identifier inside the CDATA section of link.
generateRssFeedEscapingLink(origin, magnetLink, displayName, pubDate) ==
  [ channelLink   |-> escapeXml(origin),
    atomLink      |-> escapeXml(origin \o StrRssPath),
    lastBuildDate |-> toUTCString(pubDate),
    title         |-> escapeXml(displayName),
    link          |-> CData(escapeXml(magnetLink)),
    guid          |-> CData(magnetLink),
    pubDate       |-> toUTCString(pubDate),
    description   |-> CData(StrLatestMagnetLink \o magnetLink) ]

\* The document generateRssFeed builds, as the values of the template's
\* placeholders, each with the markup that wraps it inside its element.
generateRssFeed(origin, magnetLink, displayName, pubDate) ==
  [ channelLink   |-> escapeXml(origin),
    atomLink      |-> escapeXml(origin \o StrRssPath),
    lastBuildDate |-> toUTCString(pubDate),
    title         |-> escapeXml(displayName),
    link          |-> CData(magnetLink),
    guid          |-> CData(magnetLink),
    pubDate       |-> toUTCString(pubDate),
    description   |-> CData(StrLatestMagnetLink \o magnetLink) ]

\* ------------------------------------------------------------------------
\* verifyAuth
\* ------------------------------------------------------------------------

\* verifyAuth: the error response, or NoResponse when the caller may go on.
\* providedToken is the Authorization header (Null when absent), secretKey
\* is env.MAGNET_RSS_KEY (Null when not configured).
verifyAuth(providedToken, secretKey) ==
  IF ~Truthy(secretKey)
    THEN jsonResponse(500, [error |-> "Server configuration error"])
  ELSE IF ~Truthy(providedToken)
          \/ ~StartsWith(providedToken, StrBearer)
    THEN jsonResponse(401, [error |-> "Unauthorized: Invalid token format"])
  ELSE IF ~timingSafeEqual(providedToken,
                           StrBearer \o secretKey)
    THEN jsonResponse(401, [error |-> "Unauthorized"])
  ELSE NoResponse

\* ------------------------------------------------------------------------
\* Bounds and inputs
\* ------------------------------------------------------------------------

\* The number of requests a behaviour receives when they come one at a time.
MaxReq == 3

\* The number of requests a behaviour receives when two can be in flight.
MaxOverlapReq == 2

\* The number of times the clock advances.
MaxTicks == 1

\* The requests that can be in flight at once.
Slots == {"r1", "r2"}

\* The keys of MAGNET_KV.
Keys == {"latest_magnet", "last_updated"}

\* The origin the worker is served from.
Origin == S(<<"h","t","t","p","s",":","/","/","f","e","e","d",".","e","x","a","m","p","l","e">>)

\* n characters of a hash.
Hash(n) == [i \in 1..n |-> ChLowerA]

\* Identifiers a client may send: hashes of 32 and 40 characters (one with a
\* name and a tracker), of 31 and 41 characters, and strings without the prefix.
Magnet32 == StrMagnetPrefix \o Hash(32)
Magnet40 ==
  StrMagnetPrefix \o Hash(40)
  \o S(<<"&","d","n","=","M","y","%","2","0","F","i","l","e","&","t","r","=","u","d","p">>)
Magnet31 == StrMagnetPrefix \o Hash(31)
Magnet41 == StrMagnetPrefix \o Hash(41)
NotAMagnet == S(<<"n","o","t","-","a","-","m","a","g","n","e","t">>)
NoPrefix == StrUrnBtih \o Hash(40)

\* A request body: text that is not JSON, the JSON null, an object without
\* a magnet field, an object whose magnet is a number, an object whose magnet
\* is a string.
Body(kind, magnet) == [kind |-> kind, magnet |-> magnet]

Bodies ==
  { Body("malformed", <<>>), Body("null", <<>>), Body("no-magnet", <<>>),
    Body("number-magnet", <<>>) }
  \cup { Body("string-magnet", m) :
           m \in {Magnet32, Magnet40, Magnet31, Magnet41, NotAMagnet, NoPrefix} }

\* The secret of the deployment: not configured, or a key.
Secrets == { Null, S(<<"k","1">>) }

\* Authorization headers: none, another scheme, the key, a key of the right
\* length and the wrong value, a key of the wrong length.
AuthHeaders ==
  { Null,
    S(<<"B","a","s","i","c"," ","k","1">>),
    S(<<"B","e","a","r","e","r"," ","k","1">>),
    S(<<"B","e","a","r","e","r"," ","k","2">>),
    S(<<"B","e","a","r","e","r"," ","k">>) }

Methods == {"GET", "POST"}

\* request.url: the origin and a path.
Paths ==
  { StrRssPath, StrUpdatePath,
    StrHealthPath, StrUnknownPath }

Urls == { Origin \o p : p \in Paths }

\* Strings new URL() rejects: paths without an origin.
BadUrls == { StrRssPath, StrHealthPath }

\* The bodies sent with every header: not JSON, an identifier the grammar
\* accepts, one it rejects.
BodiesOfAnyAuth ==
  { Body("malformed", <<>>), Body("string-magnet", Magnet32),
    Body("string-magnet", NotAMagnet) }

\* The requests a client may send: every body with the key, three bodies
\* with every header. Only POST /update reads the header and the body, so
\* the other requests carry none.
Requests ==
  { [method |-> "POST", url |-> Origin \o StrUpdatePath,
     authorization |-> StrBearer \o S(<<"k","1">>), body |-> b] : b \in Bodies }
  \cup
  { [method |-> "POST", url |-> Origin \o StrUpdatePath,
     authorization |-> a, body |-> b] : a \in AuthHeaders, b \in BodiesOfAnyAuth }
  \cup
  { [method |-> m, url |-> u, authorization |-> Null, body |-> Body("malformed", <<>>)] :
      m \in Methods, u \in Urls }

\* The requests of the runs with two requests in flight: reads, and updates
\* that carry the key.
ConcurrentRequests ==
  { [method |-> "POST", url |-> Origin \o StrUpdatePath,
     authorization |-> StrBearer \o S(<<"k","1">>), body |-> Body("string-magnet", m)] :
      m \in {Magnet32, Magnet40} }
  \cup
  { [method |-> "GET", url |-> Origin \o StrRssPath, authorization |-> Null,
     body |-> Body("malformed", <<>>)] }

\* ------------------------------------------------------------------------
\* State
\* ------------------------------------------------------------------------

VARIABLES
  kv,        \* MAGNET_KV: key -> the stored string, Null when absent
  secretKey, \* env.MAGNET_RSS_KEY
  clock,     \* the time new Date() reads, in milliseconds
  req,       \* slot -> the request of that slot and where its handler stands
  issued,    \* the number of requests received so far
  hist,      \* history of the store, for stating the properties
  call       \* a utility function applied on its own: its arguments and result

vars == << kv, secretKey, clock, req, issued, hist, call >>

\* No utility function has been applied on its own.
NoCall == [fn |-> "none", args |-> <<>>, result |-> <<>>]

\* A slot that holds no request.
IdleReq ==
  [ pc        |-> "idle",      \* idle, json, put, get, done
    id        |-> 0,           \* the request's number, from 1
    request   |-> [method |-> "", url |-> <<>>, authorization |-> Null,
                   body |-> Body("malformed", <<>>)],
    route     |-> "none",      \* the branch fetch took
    magnet    |-> <<>>,        \* body.magnet, once validated
    displayName |-> <<>>,      \* magnetValidation.displayName
    now       |-> 0,           \* new Date(), once the handler has read the clock
    puts      |-> [k \in Keys |-> "none"],  \* none, pending, ok, failed
    got       |-> [k \in Keys |-> FALSE],   \* whether the get has resolved
    val       |-> [k \in Keys |-> Null],    \* what the get resolved to
    outcome   |-> "none",      \* none, response, rejected
    error     |-> Null,        \* the message of the exception fetch has caught
    response  |-> NoResponse,
    \* history of the request, for stating the properties
    kvReads   |-> 0,           \* gets the request has issued
    kvWrites  |-> 0,           \* puts the request has issued
    bodyRead  |-> FALSE,       \* whether request.json() was called
    quiet     |-> TRUE,        \* no update (other than itself) in flight since it began
    overlap   |-> {},          \* the updates in flight at some time since it began
    before    |-> [settled |-> Null, everOk |-> FALSE],  \* hist as it began
    src       |-> [k \in Keys |-> 0],       \* the request whose put it read
    seen      |-> [k \in Keys |-> {}] ]     \* the values the key held since it began

\* An update whose puts may still reach the store: its handler is running,
\* or it has answered while one of its puts was still pending.
UpdateInFlight(r) ==
  /\ r.route = "update"
  /\ \/ r.pc \in {"json", "put"}
     \/ r.pc = "done" /\ \E k \in Keys : r.puts[k] = "pending"

RssInFlight(r) == r.pc = "get"

TypeOK ==
  /\ \A k \in Keys : kv[k] = Null \/ Len(kv[k]) > 0
  /\ secretKey \in Secrets
  /\ clock \in 0..(1500 * MaxTicks)
  /\ issued >= 0
  /\ \A s \in Slots :
       /\ req[s].pc \in {"idle", "json", "put", "get", "done"}
       /\ req[s].outcome \in {"none", "response", "rejected"}
       /\ (req[s].pc = "done") = (req[s].outcome # "none")

Init ==
  /\ kv = [k \in Keys |-> Null]
  /\ secretKey \in Secrets
  /\ clock = 0
  /\ req = [s \in Slots |-> IdleReq]
  /\ issued = 0
  /\ hist = [ writer    |-> [k \in Keys |-> 0],  \* the request whose put the key holds
              settled   |-> Null,   \* the identifier of the last update to answer, when
                                    \* it answered 200 and ran with no other update
              everOk    |-> FALSE,  \* some update has answered 200
              putFailed |-> FALSE,  \* some put has failed
              caught    |-> {} ]    \* the exceptions fetch has caught, each
                                    \* with the response it was turned into
  /\ call = NoCall

\* ------------------------------------------------------------------------
\* fetch: the router, and each handler up to its first await
\* ------------------------------------------------------------------------

\* Whether new URL(url) succeeds: the model's URLs are the origin and a path.
UrlParses(url) == StartsWith(url, Origin) /\ Len(url) > Len(Origin)

\* new URL(url).pathname
Pathname(url) == Slice(url, Len(Origin) + 1, Len(url))

\* Route with the method left out of the test for /rss.
RouteIgnoringMethod(request) ==
  IF ~UrlParses(request.url) THEN "catch"
  ELSE IF Pathname(request.url) = StrRssPath THEN "rss"
  ELSE IF Pathname(request.url) = StrUpdatePath /\ request.method = "POST"
    THEN "update"
  ELSE IF Pathname(request.url) = StrHealthPath /\ request.method = "GET"
    THEN "health"
  ELSE "notfound"

\* The branch of fetch a request takes.
Route(request) ==
  IF ~UrlParses(request.url) THEN "catch"
  ELSE IF Pathname(request.url) = StrRssPath /\ request.method = "GET"
    THEN "rss"
  ELSE IF Pathname(request.url) = StrUpdatePath
          /\ request.method = "POST"
    THEN "update"
  ELSE IF Pathname(request.url) = StrHealthPath
          /\ request.method = "GET"
    THEN "health"
  ELSE "notfound"

\* The exceptions new URL(url) can throw for a string it rejects: a
\* TypeError whose message, depending on the runtime, is fixed or quotes the
\* string; its stack begins with its name and message.
UrlErrors(url) ==
  { [message |-> m, stack |-> StrTypeError \o m \o StrAtFetch] :
      m \in { StrInvalidUrlString, StrInvalidUrl \o url } }

\* The exceptions thrown inside the try block of fetch for a request (none
\* when the set holds only NoError).
NoError == [message |-> Null, stack |-> Null]
ThrownInFetch(request) ==
  IF UrlParses(request.url) THEN { NoError } ELSE UrlErrors(request.url)

\* The catch block of fetch.
CatchResponse(error) ==
  jsonResponse(500, [error |-> "Internal Server Error", message |-> error.message])

\* The slot of a request that has ended with response r.
Respond(r0, r) == [r0 EXCEPT !.pc = "done", !.outcome = "response", !.response = r]

\* The slot of a request whose promise was rejected: fetch returns the
\* handler's promise without awaiting it, so a rejection of that promise
\* happens after fetch has left its try block.
Reject(r0) == [r0 EXCEPT !.pc = "done", !.outcome = "rejected"]

\* The slot of a new request, numbered id, before the router looks at it.
Arrive(request, id) ==
  [IdleReq EXCEPT !.id = id, !.request = request, !.route = Route(request)]

\* The other slots' histories when the request of slot s turns out to be an
\* update that passes authentication.
NoteUpdateBegins(s, id) ==
  [o \in Slots \ {s} |->
     IF RssInFlight(req[o]) \/ UpdateInFlight(req[o])
       THEN [req[o] EXCEPT !.quiet = FALSE, !.overlap = @ \cup {id}]
       ELSE req[o]]

\* The ids of the updates in flight in the slots other than s.
UpdatesInFlightBut(s) ==
  { req[o].id : o \in { x \in Slots \ {s} : UpdateInFlight(req[x]) } }

\* handleRssRequest up to its await: both gets are issued.
BeginRss(s, r0) ==
  [r0 EXCEPT !.pc = "get", !.kvReads = 2,
             !.quiet = (UpdatesInFlightBut(s) = {}),
             !.overlap = UpdatesInFlightBut(s),
             !.before = [settled |-> hist.settled, everOk |-> hist.everOk],
             !.seen = [k \in Keys |-> {kv[k]}]]

\* handleUpdateRequest up to request.json(): verifyAuth.
BeginUpdate(s, r0) ==
  LET authError == verifyAuth(r0.request.authorization, secretKey)
  IN  IF authError.status # 0 THEN Respond(r0, authError)
      ELSE [r0 EXCEPT !.pc = "json", !.bodyRead = TRUE,
                      !.quiet = (UpdatesInFlightBut(s) = {}),
                      !.overlap = UpdatesInFlightBut(s)]

\* A slot that can take a new request: no handler runs in it and no put of
\* it is pending.
Free(r) == r.pc \in {"idle", "done"} /\ \A k \in Keys : r.puts[k] # "pending"

\* A request arrives, one of at most max, and takes the first free slot.
Fetch(s, request, max) ==
  /\ Free(req[s])
  /\ \A o \in Slots : (o = "r1" /\ s = "r2") => ~Free(req[o])
  /\ issued < max
  /\ issued' = issued + 1
  /\ \E error \in ThrownInFetch(request) :
       LET r0 == Arrive(request, issued + 1)
           r1 == CASE r0.route = "rss" -> BeginRss(s, r0)
                   [] r0.route = "update" -> BeginUpdate(s, r0)
                   [] r0.route = "health" -> Respond(r0, textResponse(200, "OK"))
                   [] r0.route = "notfound" ->
                        Respond(r0, textResponse(404, "Not Found"))
                   [] r0.route = "catch" ->
                        Respond([r0 EXCEPT !.error = error.message],
                                CatchResponse(error))
       IN  /\ req' = IF r1.pc = "json"
                       THEN [o \in Slots |->
                               IF o = s THEN r1 ELSE NoteUpdateBegins(s, r1.id)[o]]
                       ELSE [req EXCEPT ![s] = r1]
           /\ hist' = IF r0.route = "catch"
                        THEN [hist EXCEPT !.caught =
                                @ \cup {[error |-> error, response |-> r1.response]}]
                        ELSE hist
  /\ UNCHANGED << kv, secretKey, clock, call >>

\* ------------------------------------------------------------------------
\* handleUpdateRequest after request.json()
\* ------------------------------------------------------------------------

\* request.json() settles: the body is checked, and a valid identifier is
\* handed to the two puts.
ParseBody(s) ==
  LET r0 == req[s]
      body == r0.request.body
      magnetValidation == validateMagnetLink(body.magnet)
  IN
  /\ r0.pc = "json"
  /\ req' = [req EXCEPT ![s] =
       IF body.kind = "malformed"
         THEN Respond(r0, jsonResponse(400, [error |-> "Invalid JSON body"]))
       ELSE IF body.kind # "string-magnet"
         THEN Respond(r0, jsonResponse(400,
                [error |-> "Missing magnet field in request body"]))
       ELSE IF ~magnetValidation.valid
         THEN Respond(r0, jsonResponse(400, [error |-> magnetValidation.message]))
       ELSE [r0 EXCEPT !.pc = "put", !.magnet = body.magnet,
                       !.displayName = magnetValidation.displayName,
                       !.now = clock, !.kvWrites = 2,
                       !.puts = [k \in Keys |-> "pending"]]]
  /\ UNCHANGED << kv, secretKey, clock, issued, hist, call >>

\* What the update of slot record r puts under key k.
PutValue(r, k) == IF k = "latest_magnet" THEN r.magnet ELSE toISOString(r.now)

\* The 200 response of handleUpdateRequest.
UpdateOk(r) ==
  jsonResponse(200,
    [success |-> TRUE, message |-> "Magnet link updated successfully",
     display_name |-> r.displayName, updated_at |-> toISOString(r.now)])

\* The history once the update of slot record r has answered with status.
NoteUpdateEnds(r, status) ==
  [hist EXCEPT !.settled = IF status = 200 /\ r.quiet THEN r.magnet ELSE Null,
               !.everOk = @ \/ status = 200]

\* The slots when the put of slot s under k has reached the store: the
\* requests reading the store have one more value the key has held.
NotePut(s, k, rs) ==
  [o \in Slots |->
     IF o = s THEN rs
     ELSE IF RssInFlight(req[o])
       THEN [req[o] EXCEPT !.seen[k] = @ \cup {PutValue(req[s], k)}]
     ELSE req[o]]

\* The put of key k succeeds. When it was the last one, Promise.all resolves
\* and the handler answers 200.
KvPut(s, k) ==
  LET r0 == req[s]
      r1 == [r0 EXCEPT !.puts[k] = "ok"]
      last == r0.pc = "put" /\ \A j \in Keys : r1.puts[j] = "ok"
  IN
  /\ r0.pc \in {"put", "done"}
  /\ r0.puts[k] = "pending"
  /\ kv' = [kv EXCEPT ![k] = PutValue(r0, k)]
  /\ req' = NotePut(s, k, IF last THEN Respond(r1, UpdateOk(r1)) ELSE r1)
  /\ hist' = [(IF last THEN NoteUpdateEnds(r0, 200) ELSE hist)
                EXCEPT !.writer[k] = r0.id]
  /\ UNCHANGED << secretKey, clock, issued, call >>

\* The put of key k fails: Promise.all rejects at once, the catch answers
\* 500, and the other put, if still pending, is left to itself: it may
\* still succeed, or fail after the response.
KvPutFail(s, k) ==
  LET r0 == req[s]
      r1 == [r0 EXCEPT !.puts[k] = "failed"]
  IN
  /\ r0.pc \in {"put", "done"}
  /\ r0.puts[k] = "pending"
  /\ req' = [req EXCEPT ![s] =
       IF r0.pc = "put"
         THEN Respond(r1, jsonResponse(500, [error |-> "Failed to update storage"]))
         ELSE r1]
  /\ hist' = [(IF r0.pc = "put" THEN NoteUpdateEnds(r0, 500) ELSE hist)
                EXCEPT !.putFailed = TRUE]
  /\ UNCHANGED << kv, secretKey, clock, issued, call >>

\* ------------------------------------------------------------------------
\* handleRssRequest after Promise.all
\* ------------------------------------------------------------------------

\* RssResponse answering 404 when either value is missing.
RssResponseRequiringBoth(magnetLink, lastUpdated, nowMs) ==
  IF ~Truthy(magnetLink) \/ ~Truthy(lastUpdated)
    THEN jsonResponse(404, [error |-> "Magnet link not available yet"])
  ELSE [status |-> 200, contentType |-> "application/xml; charset=utf-8",
        body |-> generateRssFeed(Origin, magnetLink,
                   sanitizeDisplayName(IF Truthy(parseDisplayName(magnetLink))
                                         THEN parseDisplayName(magnetLink)
                                         ELSE StrLatestTorrent),
                   DateParse(lastUpdated))]

\* The response of handleRssRequest once both gets have resolved.
RssResponse(magnetLink, lastUpdated, nowMs) ==
  IF ~Truthy(magnetLink)
    THEN jsonResponse(404, [error |-> "Magnet link not available yet"])
  ELSE LET displayName ==
             IF Truthy(parseDisplayName(magnetLink))
               THEN parseDisplayName(magnetLink)
               ELSE StrLatestTorrent
           safeDisplayName == sanitizeDisplayName(displayName)
           pubDate == IF Truthy(lastUpdated) THEN DateParse(lastUpdated) ELSE nowMs
       IN  [status |-> 200, contentType |-> "application/xml; charset=utf-8",
            body |-> generateRssFeed(Origin, magnetLink, safeDisplayName, pubDate)]

\* KvGet with both gets reading the key latest_magnet.
KvGetOneKey(s, k) ==
  LET r0 == req[s]
      r1 == [r0 EXCEPT !.got[k] = TRUE, !.val[k] = kv["latest_magnet"],
                       !.src[k] = hist.writer["latest_magnet"]]
      last == \A j \in Keys : r1.got[j]
  IN
  /\ r0.pc = "get"
  /\ ~r0.got[k]
  /\ req' = [req EXCEPT ![s] =
       IF last
         THEN Respond([r1 EXCEPT !.now = clock],
                      RssResponse(r1.val["latest_magnet"],
                                  r1.val["last_updated"], clock))
         ELSE r1]
  /\ UNCHANGED << kv, secretKey, clock, issued, hist, call >>

\* The get of key k resolves. When it was the last one, Promise.all resolves
\* and the handler answers.
KvGet(s, k) ==
  LET r0 == req[s]
      r1 == [r0 EXCEPT !.got[k] = TRUE, !.val[k] = kv[k], !.src[k] = hist.writer[k]]
      last == \A j \in Keys : r1.got[j]
  IN
  /\ r0.pc = "get"
  /\ ~r0.got[k]
  /\ req' = [req EXCEPT ![s] =
       IF last
         THEN Respond([r1 EXCEPT !.now = clock],
                      RssResponse(r1.val["latest_magnet"],
                                  r1.val["last_updated"], clock))
         ELSE r1]
  /\ UNCHANGED << kv, secretKey, clock, issued, hist, call >>

\* The get of key k fails: Promise.all rejects, and so does the promise
\* handleRssRequest returned, which nothing awaits inside fetch's try block.
KvGetFail(s, k) ==
  /\ req[s].pc = "get"
  /\ ~req[s].got[k]
  /\ req' = [req EXCEPT ![s] = Reject(req[s])]
  /\ UNCHANGED << kv, secretKey, clock, issued, hist, call >>

\* Time passes, a second and a half at a time.
Tick ==
  /\ clock < 1500 * MaxTicks
  /\ clock' = clock + 1500
  /\ UNCHANGED << kv, secretKey, req, issued, hist, call >>

\* A step of the worker with at most max requests, taken from R, arriving
\* in the slots of SS.
Step(SS, R, max) ==
  \/ \E s \in SS, request \in R : Fetch(s, request, max)
  \/ \E s \in SS : ParseBody(s)
  \/ \E s \in SS, k \in Keys : KvPut(s, k)
  \/ \E s \in SS, k \in Keys : KvPutFail(s, k)
  \/ \E s \in SS, k \in Keys : KvGet(s, k)
  \/ \E s \in SS, k \in Keys : KvGetFail(s, k)
  \/ Tick

\* One request at a time, every kind of request.
Next == Step({"r1"}, Requests, MaxReq)

Spec == Init /\ [][Next]_vars

\* Two requests at a time, with the secret configured, from an empty store
\* or from the store an earlier update (numbered 0) has left.
InitConcurrent ==
  /\ kv \in { [k \in Keys |-> Null],
               [k \in Keys |-> IF k = "latest_magnet" THEN Magnet32
                                                      ELSE toISOString(0)] }
  /\ secretKey \in Secrets \ {Null}
  /\ clock = 0
  /\ req = [s \in Slots |-> IdleReq]
  /\ issued = 0
  /\ hist = [ writer    |-> [k \in Keys |-> 0],
              settled   |-> kv["latest_magnet"],
              everOk    |-> kv["latest_magnet"] # Null,
              putFailed |-> FALSE,
              caught    |-> {} ]
  /\ call = NoCall

NextConcurrent == Step(Slots, ConcurrentRequests, MaxOverlapReq)

SpecConcurrent == InitConcurrent /\ [][NextConcurrent]_vars

\* Identifiers with a hash of 40 characters and a name parameter: a UTF-8
\* escape sequence, an escape that cannot be decoded, escaped markup
\* characters, the end of a CDATA section, an empty value.
WithName(dn) == StrMagnetPrefix \o Hash(40) \o StrDnParam \o dn
MagnetUtf8Name == WithName(S(<<"%","E","4","%","B","8","%","A","D">>))
MagnetBadEscape == WithName(S(<<"1","0","0","%">>))
MagnetMarkupName == WithName(S(<<"a","%","2","6","b","%","3","C","c">>))
MagnetCDataEnd == WithName(S(<<"]","]",">">>))
MagnetEmptyName == WithName(S(<<"&","t","r","=","u","d","p">>))

NamedMagnets ==
  { Magnet32, Magnet40, MagnetUtf8Name, MagnetBadEscape, MagnetMarkupName,
    MagnetCDataEnd, MagnetEmptyName }

\* The requests of the runs about names: reads, and updates that carry the
\* key and an identifier the grammar accepts.
NameRequests ==
  { [method |-> "POST", url |-> Origin \o StrUpdatePath,
     authorization |-> StrBearer \o S(<<"k","1">>), body |-> Body("string-magnet", m)] :
      m \in NamedMagnets }
  \cup
  { [method |-> "GET", url |-> Origin \o StrRssPath, authorization |-> Null,
     body |-> Body("malformed", <<>>)] }

\* The requests of the runs about the router: every method with every URL,
\* those new URL() rejects included, and an update that carries the key.
RouterRequests ==
  { [method |-> m, url |-> u, authorization |-> Null, body |-> Body("malformed", <<>>)] :
      m \in Methods, u \in Urls \cup BadUrls }
  \cup
  { [method |-> "POST", url |-> Origin \o StrUpdatePath,
     authorization |-> StrBearer \o S(<<"k","1">>),
     body |-> Body("string-magnet", Magnet32)] }

NextRouter == Step({"r1"}, RouterRequests, MaxReq)

SpecRouter == Init /\ [][NextRouter]_vars

\* One request at a time, identifiers with every kind of name.
NextNames == Step({"r1"}, NameRequests, MaxReq)

SpecNames == Init /\ [][NextNames]_vars

\* ------------------------------------------------------------------------
\* The utility functions applied on their own, to arguments of any kind
\* ------------------------------------------------------------------------

\* Strings to compare: ASCII keys, a Latin-1 letter, unpaired high and low
\* surrogates, U+FFFD, surrogate pairs, a pair in the wrong order.
TokenStrings ==
  { <<>>, S(<<"k">>), S(<<"k","1">>), S(<<"k","2">>), S(<<"a","b">>),
    << 233 >>, << 55296 >>, << 56320 >>, << 65533 >>,
    << 55357, 56832 >>, << 55357, 56833 >>, << 56832, 55357 >>,
    << 55296, 97 >> }

\* this.timingSafeEqual(a, b)
CallTimingSafeEqual ==
  /\ \E a \in TokenStrings, b \in TokenStrings :
       call' = [fn |-> "timingSafeEqual", args |-> << a, b >>,
                result |-> timingSafeEqual(a, b)]
  /\ UNCHANGED << kv, secretKey, clock, req, issued, hist >>

\* The longest string escapeXml is applied to, every string up to that
\* length being tried.
MaxXmlLen == 2

\* The characters of those strings: the five reserved ones, the letters and
\* the semicolon of the entities, a Latin-1 letter.
XmlChars ==
  { ChAmp, ChLt, ChGt, ChApos, ChQuot, ChLowerA, Code("l"), Code("t"),
    Code(";"), 233 }

\* Strings to escape: every short one, text that is already escaped, all
\* five reserved characters together.
XmlStrings ==
  UNION { [1..n -> XmlChars] : n \in 0..MaxXmlLen }
  \cup { StrLt, StrAmp \o StrAmp,
         S(<<"a","&","b","<","c",">","'","d","'","\"","e","\"">>) }

\* this.escapeXml(unsafe)
CallEscapeXml ==
  /\ \E unsafe \in XmlStrings :
       call' = [fn |-> "escapeXml", args |-> << unsafe >>,
                result |-> escapeXml(unsafe)]
  /\ UNCHANGED << kv, secretKey, clock, req, issued, hist >>

NextUtilities ==
  \/ CallTimingSafeEqual
  \/ CallEscapeXml

SpecUtilities == Init /\ [][NextUtilities]_vars

\* ------------------------------------------------------------------------
\* Properties
\* ------------------------------------------------------------------------

\* The slots whose request has ended.
Done == { s \in Slots : req[s].pc = "done" }

\* The slots whose request has ended with a response.
Answered == { s \in Done : req[s].outcome = "response" }

\* The requests of the update handler, those of the feed handler.
UpdateReq(r) == r.request.method = "POST" /\ Pathname(r.request.url) = StrUpdatePath
                /\ UrlParses(r.request.url)
RssReq(r) == r.request.method = "GET" /\ Pathname(r.request.url) = StrRssPath
             /\ UrlParses(r.request.url)

\* The header the configured secret calls for.
ValidAuth(r) == Truthy(secretKey) /\ r.request.authorization = StrBearer \o secretKey

\* Whether some update may still write to the store.
SomeUpdateInFlight == \E s \in Slots : UpdateInFlight(req[s])

\* The identifier grammar as the specification states it: the scheme prefix
\* (in either case), then a hash segment, the run of alphanumeric characters
\* after the prefix, of 32 to 40 characters.
HasSchemePrefix(m) == MatchesAtI(m, 1, StrMagnetPrefix)
HashSegmentLen(m) ==
  Cardinality({ n \in 1..(Len(m) - Len(StrMagnetPrefix)) :
                  \A i \in 1..n : IsAlnum(m[Len(StrMagnetPrefix) + i]) })
InGrammar(m) == HasSchemePrefix(m) /\ HashSegmentLen(m) \in 32..40

\* C1: a GET /rss that runs with no update in flight, after the last update
\* to answer has answered 200 for identifier m having run with no other
\* update in flight, returns 200 (its gets succeeding) and its feed embeds m
\* and no other identifier: unescaped between the CDATA markers of link,
\* guid and description.
C1_FeedEmbedsLastWrite ==
  \A s \in Answered :
    LET r == req[s]
        m == r.before.settled
    IN  (RssReq(r) /\ r.quiet /\ m # Null) =>
          /\ r.response.status = 200
          /\ r.response.body.link = StrCDataOpen \o m \o StrCDataClose
          /\ r.response.body.guid = StrCDataOpen \o m \o StrCDataClose
          /\ r.response.body.description =
               StrCDataOpen \o StrLatestMagnetLink \o m \o StrCDataClose

\* C1's case: a feed served right after the identifier with the name
\* parameter (which holds a reserved character, &) was written.
C1_Witness ==
  \E s \in Answered :
    /\ RssReq(req[s]) /\ req[s].quiet
    /\ req[s].before.settled = Magnet40
    /\ req[s].response.status = 200
    /\ req[s].id > 1

\* C2: with the secret configured, a POST /update whose Authorization header
\* is missing, does not start with "Bearer " or differs from "Bearer " and
\* the secret (in length or in value) is answered 401 whatever its body, and
\* neither reads the body nor issues a put.
C2_BadAuthIs401 ==
  \A s \in Slots :
    LET r == req[s]
        h == r.request.authorization
    IN  (r.pc # "idle" /\ UpdateReq(r) /\ Truthy(secretKey)
         /\ (h = Null \/ ~StartsWith(h, StrBearer) \/ h # StrBearer \o secretKey)) =>
          /\ r.pc = "done" /\ r.outcome = "response"
          /\ r.response.status = 401
          /\ ~r.bodyRead
          /\ r.kvWrites = 0
          /\ \A k \in Keys : hist.writer[k] # r.id

\* C2's case: a valid identifier sent with a key of the right length and
\* the wrong value.
C2_Witness ==
  \E s \in Answered :
    /\ UpdateReq(req[s]) /\ Truthy(secretKey)
    /\ req[s].request.authorization = StrBearer \o S(<<"k","2">>)
    /\ req[s].request.body = Body("string-magnet", Magnet32)
    /\ req[s].response.status = 401

\* C3 (as claimed): an authenticated POST /update whose body is malformed
\* JSON, lacks a string magnet field or holds a string outside the
\* identifier grammar is answered 400 and issues no put.
C3_InvalidBodyIs400 ==
  \A s \in Slots :
    LET r == req[s]
        b == r.request.body
    IN  (r.pc \in {"put", "done"} /\ UpdateReq(r) /\ ValidAuth(r)
         /\ (b.kind # "string-magnet" \/ ~InGrammar(b.magnet))) =>
          /\ r.pc = "done" /\ r.outcome = "response"
          /\ r.response.status = 400
          /\ r.kvWrites = 0

\* C4 (as claimed): an authenticated POST /update is answered 400 when the
\* identifier lacks the scheme prefix or its hash segment is shorter than 32
\* or longer than 40 characters, and is accepted when the segment has 32 to
\* 40 characters.
C4_HashLengthBounds ==
  \A s \in Slots :
    LET r == req[s]
        m == r.request.body.magnet
    IN  (r.pc \in {"put", "done"} /\ UpdateReq(r) /\ ValidAuth(r)
         /\ r.request.body.kind = "string-magnet") =>
          IF HasSchemePrefix(m) /\ HashSegmentLen(m) \in 32..40
            THEN r.kvWrites = 2
            ELSE r.pc = "done" /\ r.response.status = 400 /\ r.kvWrites = 0

\* C5 (as claimed): until an update has answered 200 both fields are absent
\* (no update being in flight), and a GET /rss that began before any update
\* had answered 200, and ran with no update in flight, is answered 404.
C5_AbsentUntilFirstSuccess ==
  /\ (~hist.everOk /\ ~SomeUpdateInFlight) => \A k \in Keys : kv[k] = Null
  /\ \A s \in Answered :
       (RssReq(req[s]) /\ req[s].quiet /\ ~req[s].before.everOk) =>
         req[s].response.status = 404

\* C6: the router selects one outcome by method and path: GET /rss is served
\* by the feed handler (which reads both keys), POST /update by the update
\* handler, GET /health is answered 200 "OK" and every other combination
\* 404 "Not Found", the last two at once and without a get or a put.
C6_RouterSelectsOne ==
  \A s \in Slots :
    LET r == req[s]
        method == r.request.method
        path == Pathname(r.request.url)
    IN  (r.pc # "idle" /\ UrlParses(r.request.url)) =>
          IF method = "GET" /\ path = StrRssPath
            THEN /\ r.kvReads = 2 /\ r.kvWrites = 0
                 /\ s \in Answered => r.response.status \in {200, 404}
          ELSE IF method = "POST" /\ path = StrUpdatePath
            THEN /\ r.kvReads = 0
                 /\ s \in Answered => r.response.status \in {200, 400, 401, 500}
                 /\ s \in Answered => r.response.contentType = "application/json"
          ELSE IF method = "GET" /\ path = StrHealthPath
            THEN /\ s \in Answered
                 /\ r.response = textResponse(200, "OK")
                 /\ r.kvReads = 0 /\ r.kvWrites = 0
          ELSE /\ s \in Answered
               /\ r.response = textResponse(404, "Not Found")
               /\ r.kvReads = 0 /\ r.kvWrites = 0

\* C6's case: POST /rss, a routed path under the wrong method, answered 404
\* while the store holds an identifier.
C6_Witness ==
  \E s \in Answered :
    /\ req[s].request.method = "POST"
    /\ req[s].request.url = Origin \o StrRssPath
    /\ req[s].response.status = 404
    /\ kv["latest_magnet"] # Null

\* C7 (as claimed): every request to fetch ends in a response.
C7_EveryRequestAnswered ==
  \A s \in Done : req[s].outcome = "response"

\* C8 (as claimed): an update one of whose puts failed is answered 500 with
\* the storage-failure message and has changed neither field.
C8_FailedPutChangesNothing ==
  \A s \in Done :
    LET r == req[s]
    IN  (UpdateReq(r) /\ \E k \in Keys : r.puts[k] = "failed") =>
          /\ r.response = jsonResponse(500, [error |-> "Failed to update storage"])
          /\ \A k \in Keys : r.puts[k] # "ok"

\* C9 (as claimed): when no put has failed and no update is in flight, both
\* fields were written by the same request.
C9_SameWriter ==
  (~hist.putFailed /\ ~SomeUpdateInFlight) =>
    hist.writer["latest_magnet"] = hist.writer["last_updated"]

\* C10 (as claimed): a GET /rss read the identifier an update in flight
\* with it wrote exactly when it read the timestamp that update wrote.
C10_NeverSplit ==
  \A s \in Answered :
    LET r == req[s]
    IN  (RssReq(r) /\ ~hist.putFailed) =>
          \A u \in r.overlap :
            (r.src["latest_magnet"] = u) <=> (r.src["last_updated"] = u)

\* The times new Date() can have read so far.
TimesSoFar == { 1500 * n : n \in 0..MaxTicks } \cap 0..clock

\* C10 (amended): the identifier a GET /rss renders is a value latest_magnet
\* held between the GET's beginning and its response, and the date it
\* renders is that of a value last_updated held in that interval, or the
\* current time when that value was absent; the two need not come from the
\* same update.
C10_EachFieldOldOrNew ==
  \A s \in Answered :
    LET r == req[s]
        feed == r.response.body
    IN  RssReq(r) =>
          IF r.response.status = 404 THEN Null \in r.seen["latest_magnet"]
          ELSE /\ \E m \in r.seen["latest_magnet"] :
                    /\ m # Null
                    /\ feed.link = StrCDataOpen \o m \o StrCDataClose
                    /\ feed.guid = StrCDataOpen \o m \o StrCDataClose
               /\ \E u \in r.seen["last_updated"] :
                    /\ feed.pubDate = feed.lastBuildDate
                    /\ IF u = Null
                         THEN \E t \in TimesSoFar : feed.pubDate = toUTCString(t)
                         ELSE feed.pubDate = toUTCString(DateParse(u))
                              /\ DateParse(u) # NaN

\* C10's case: a feed that renders the identifier of an update in flight
\* with it and the date of an earlier update.
C10_Witness ==
  \E s \in Answered :
    LET r == req[s]
    IN  /\ RssReq(r) /\ r.response.status = 200
        /\ r.src["latest_magnet"] \in r.overlap
        /\ r.src["last_updated"] \notin r.overlap
        /\ r.val["last_updated"] # Null
        /\ ~hist.putFailed

\* C11 (as claimed): timingSafeEqual(a, b) of two strings of equal length
\* (non-ASCII strings and unpaired surrogates included) is true exactly when
\* a = b, and of two strings of unequal length is false.
C11_EqualIffSame ==
  call.fn = "timingSafeEqual" =>
    LET a == call.args[1]
        b == call.args[2]
    IN  IF Len(a) = Len(b) THEN call.result <=> (a = b)
        ELSE ~call.result

\* The value of the identifier's dn parameter, as the parameters read when
\* the identifier is split at "&": Null when no parameter is named dn or
\* the first one so named has an empty value.
DnParamStarts(m) ==
  { p \in 2..Len(m) : m[p - 1] = ChAmp /\ MatchesAt(m, p, S(<<"d","n","=">>)) }
DnParamValue(m) ==
  IF DnParamStarts(m) = {} THEN Null
  ELSE LET p == CHOOSE i \in DnParamStarts(m) : \A j \in DnParamStarts(m) : i <= j
           ends == { e \in (p + 2)..Len(m) : e = Len(m) \/ m[e + 1] = ChAmp }
           e == CHOOSE i \in ends : \A j \in ends : i <= j
       IN  IF e < p + 3 THEN Null ELSE Slice(m, p + 3, e)

\* C12: the display_name of the 200 response of POST /update is the
\* URL-decoded value of the identifier's dn parameter ("My File" for
\* &dn=My%20File), the raw value when it cannot be decoded, and the
\* placeholder "Unnamed Torrent" when the identifier has no dn parameter (or
\* an empty one).
C12_DisplayNameDecoded ==
  \A s \in Answered :
    LET r == req[s]
        m == r.request.body.magnet
        v == DnParamValue(m)
        name == r.response.body.display_name
    IN  (UpdateReq(r) /\ r.response.status = 200) =>
          /\ v = Null => name = StrUnnamedTorrent
          /\ (v # Null /\ decodeURIComponent(v) # Thrown) => name = decodeURIComponent(v)
          /\ (v # Null /\ decodeURIComponent(v) = Thrown) => name = v
          /\ m = Magnet40 => name = S(<<"M","y"," ","F","i","l","e">>)
          /\ m = MagnetUtf8Name => name = << 20013 >>

\* C12's case: an update whose name cannot be decoded has answered 200 with
\* the raw value.
C12_Witness ==
  \E s \in Answered :
    /\ UpdateReq(req[s]) /\ req[s].response.status = 200
    /\ req[s].request.body.magnet = MagnetBadEscape
    /\ req[s].response.body.display_name = S(<<"1","0","0","%">>)

\* The five named entities, and the text they stand for.
XmlEntities == { StrAmp, StrLt, StrGt, StrApos, StrQuot }
RECURSIVE UnescapeXml(_)
UnescapeXml(o) ==
  IF o = <<>> THEN <<>>
  ELSE IF StartsWith(o, StrAmp) THEN << ChAmp >> \o UnescapeXml(SubSeq(o, 6, Len(o)))
  ELSE IF StartsWith(o, StrLt) THEN << ChLt >> \o UnescapeXml(SubSeq(o, 5, Len(o)))
  ELSE IF StartsWith(o, StrGt) THEN << ChGt >> \o UnescapeXml(SubSeq(o, 5, Len(o)))
  ELSE IF StartsWith(o, StrApos) THEN << ChApos >> \o UnescapeXml(SubSeq(o, 7, Len(o)))
  ELSE IF StartsWith(o, StrQuot) THEN << ChQuot >> \o UnescapeXml(SubSeq(o, 7, Len(o)))
  ELSE << o[1] >> \o UnescapeXml(Tail(o))

\* C13: the output of escapeXml holds no raw < > ' ", every & in it begins
\* one of the five entities, it has one & for each reserved character of the
\* input (a single pass: no entity is escaped again), and reading its
\* entities back gives the input, so that every reserved character became
\* its own entity, every other character is unchanged, and the mapping is
\* injective.
C13_EscapeXmlEntities ==
  call.fn = "escapeXml" =>
    LET unsafe == call.args[1]
        o == call.result
        reserved == { ChAmp, ChLt, ChGt, ChApos, ChQuot }
    IN  /\ \A i \in 1..Len(o) : o[i] \notin { ChLt, ChGt, ChApos, ChQuot }
        /\ \A i \in 1..Len(o) :
             o[i] = ChAmp => \E ent \in XmlEntities : MatchesAt(o, i, ent)
        /\ Cardinality({ i \in 1..Len(o) : o[i] = ChAmp })
             = Cardinality({ i \in 1..Len(unsafe) : unsafe[i] \in reserved })
        /\ UnescapeXml(o) = unsafe

\* C13's case: text that is already an entity is escaped once more, by its
\* ampersand alone.
C13_Witness ==
  /\ call.fn = "escapeXml"
  /\ call.args[1] = StrLt
  /\ call.result = StrAmp \o S(<<"l","t",";">>)

\* C14: in every reachable state latest_magnet is absent or a non-empty
\* string that begins with the scheme prefix (in either case) and that
\* validateMagnetLink accepts, and last_updated is absent or parses to a
\* valid time.
C14_StoreWellFormed ==
  /\ \/ kv["latest_magnet"] = Null
     \/ /\ Len(kv["latest_magnet"]) > 0
        /\ HasSchemePrefix(kv["latest_magnet"])
        /\ validateMagnetLink(kv["latest_magnet"]).valid
  /\ \/ kv["last_updated"] = Null
     \/ DateParse(kv["last_updated"]) # NaN

\* C14's case: an update one of whose puts failed has left the identifier
\* without a timestamp, in a run of several requests.
C14_Witness ==
  /\ kv["latest_magnet"] # Null
  /\ kv["last_updated"] = Null
  /\ hist.putFailed
  /\ issued > 1

\* C15: a GET /rss is answered 404 exactly when the latest_magnet it read is
\* absent, whatever it read of last_updated; otherwise it is answered 200
\* with pubDate and lastBuildDate both the timestamp it read, and both the
\* time of the response when it read none.
C15_MissingTimestampIsNormal ==
  \A s \in Answered :
    LET r == req[s]
        magnetLink == r.val["latest_magnet"]
        lastUpdated == r.val["last_updated"]
        feed == r.response.body
    IN  RssReq(r) =>
          IF magnetLink = Null THEN r.response.status = 404
          ELSE /\ r.response.status = 200
               /\ feed.pubDate = feed.lastBuildDate
               /\ lastUpdated = Null => feed.pubDate = toUTCString(r.now)
               /\ lastUpdated # Null =>
                    /\ feed.pubDate = toUTCString(DateParse(lastUpdated))
                    /\ feed.pubDate # StrInvalidDate
               /\ lastUpdated = toISOString(1500) =>
                    feed.pubDate = StrUtcPrefix \o S(<<"0","1">>) \o StrGmt

\* C15's case: a feed served from a store that holds an identifier and no
\* timestamp, dated with the time of the response, later than the epoch.
C15_Witness ==
  \E s \in Answered :
    /\ RssReq(req[s]) /\ req[s].response.status = 200
    /\ req[s].val["last_updated"] = Null
    /\ req[s].now = 1500
    /\ req[s].response.body.pubDate = StrUtcPrefix \o S(<<"0","1">>) \o StrGmt

\* C16 (as claimed): the responses fetch's catch block has given are all the
\* same whatever exception was caught, and none carries the message or the
\* stack of the exception.
C16_Router500IsGeneric ==
  /\ \A c1 \in hist.caught, c2 \in hist.caught : c1.response = c2.response
  /\ \A c \in hist.caught :
       /\ c.response.status = 500
       /\ "message" \in DOMAIN c.response.body =>
            c.response.body.message \notin { c.error.message, c.error.stack }

\* Whether the CDATA section (its markers included) is closed by its last
\* three characters and not before.
ClosesOnlyAtEnd(section) ==
  \A k \in 1..Len(section) :
    MatchesAt(section, k, StrCDataClose) => k = Len(section) - 2

\* Whether text placed outside CDATA holds no unescaped reserved character.
HoldsNoMarkup(text) ==
  \A i \in 1..Len(text) :
    /\ text[i] \notin { ChLt, ChGt, ChApos, ChQuot }
    /\ text[i] = ChAmp => \E ent \in XmlEntities : MatchesAt(text, i, ent)

\* C17 (as claimed): in every feed served, the CDATA sections of link, guid
\* and description end where the template ends them (the identifier holds
\* no "]]>"), and the values outside CDATA hold no unescaped reserved
\* character.
C17_FeedWellFormed ==
  \A s \in Answered :
    LET r == req[s]
        feed == r.response.body
    IN  (RssReq(r) /\ r.response.status = 200) =>
          /\ ClosesOnlyAtEnd(feed.link)
          /\ ClosesOnlyAtEnd(feed.guid)
          /\ ClosesOnlyAtEnd(feed.description)
          /\ HoldsNoMarkup(feed.title)
          /\ HoldsNoMarkup(feed.channelLink)
          /\ HoldsNoMarkup(feed.atomLink)
          /\ HoldsNoMarkup(feed.pubDate)
          /\ HoldsNoMarkup(feed.lastBuildDate)

\* C18 (as claimed): the item title of every feed served is the escaped
\* display name that parseDisplayName extracts from the identifier read,
\* with no character dropped, is "Latest Torrent" when the identifier has no
\* name, and is never empty.
C18_TitleIsEscapedName ==
  \A s \in Answered :
    LET r == req[s]
        name == parseDisplayName(r.val["latest_magnet"])
    IN  (RssReq(r) /\ r.response.status = 200) =>
          /\ r.response.body.title =
               escapeXml(IF name = Null THEN StrLatestTorrent ELSE name)
          /\ r.response.body.title # <<>>

====
